---- MODULE Spec2Model ----
(***************************************************************************)
(* st_trans_sup_ha (inst/python/trans_sup_ha.py): ensure that a polygon    *)
(* feature class has a DOUBLE area field of a given precision and scale    *)
(* and fill it with every feature's area in hectares.  When the field is   *)
(* already well formed the values are recomputed in place; otherwise the   *)
(* feature class is rebuilt in a temporary shapefile and copied back.      *)
(*                                                                         *)
(* The geoprocessing engine (arcpy) is the environment.  Each of its calls *)
(* is one step of the model; inside the try block every call may raise     *)
(* instead of acting.  A feature class is a record                         *)
(*     [exists, fields, rows]                                              *)
(* fields: the ordered field list as ListFields returns it (the OID and    *)
(* geometry fields first), rows: the ordered features, each a geometry     *)
(* and a value per attribute field.  A geometry is represented by its      *)
(* area in square metres.                                                  *)
(***************************************************************************)
EXTENDS Integers, Sequences, FiniteSets, TLC

\* ------------------------------------------------------------------ bounds
MaxFields == 3      \* attribute fields of the input feature class
MaxRows   == 2      \* features of the input feature class

\* ------------------------------------------------------- parameters, values
campo_superficie == "Sup_ha"
\* (precision, escala) of the calls: the defaults of line 5 and another pair
Params     == {<<8, 2>>, <<10, 3>>}
\* the geometry of the r-th input feature, by its area in square metres
AreaOf(r)  == 12345 * r
\* the value of an attribute no cursor or tool has written
Null       == <<"null">>

\* str.lower() on the field names of the model
Lower(n) ==
  CASE n = "Sup_ha" -> "sup_ha"
    [] n = "SUP_HA" -> "sup_ha"
    [] n = "Id"     -> "id"
    [] n = "A"      -> "a"
    [] n = "B"      -> "b"
    [] n = "FID"    -> "fid"
    [] n = "Shape"  -> "shape"
    [] OTHER        -> n

\* a field as arcpy.ListFields describes it; meta stands for
\* (length, aliasName, isNullable, required, domain)
Field(n, t, p, s, m) ==
  [name |-> n, type |-> t, precision |-> p, scale |-> s, meta |-> m]

FieldFID   == Field("FID", "OID", 0, 0, "sys")
FieldShape == Field("Shape", "Geometry", 0, 0, "sys")
\* the attribute field every new shapefile is created with
FieldId    == Field("Id", "Integer", 6, 0, "default")

NoCollection == [exists |-> FALSE, fields |-> <<>>, rows |-> <<>>]

\* ------------------------------------------------------ sequence helpers
Range(s) == {s[j] : j \in DOMAIN s}

RECURSIVE SelectIdx(_, _, _)
\* the subsequence of s at the indices of keep, in order
SelectIdx(s, keep, j) ==
  IF j > Len(s) THEN <<>>
  ELSE (IF j \in keep THEN <<s[j]>> ELSE <<>>) \o SelectIdx(s, keep, j + 1)

Filter(s, keep) == SelectIdx(s, keep, 1)

\* ------------------------------------------------- the geoprocessing engine
IsManaged(f) == f.type \in {"OID", "Geometry"}

\* names of the attribute fields of a feature class, in schema order
UserFields(c) == Filter(c.fields, {j \in DOMAIN c.fields : ~IsManaged(c.fields[j])})
UserNames(c)  == {c.fields[j].name : j \in {x \in DOMAIN c.fields : ~IsManaged(c.fields[x])}}

\* index of the field called n (field names are case-insensitive), 0 if none
FindField(c, n) ==
  LET hits == {j \in DOMAIN c.fields : Lower(c.fields[j].name) = Lower(n)}
  IN  IF hits = {} THEN 0 ELSE CHOOSE j \in hits : \A h \in hits : j <= h

\* the type ListFields reports for a field added with field_type t
FieldTypeOf(t) ==
  CASE t = "DOUBLE" -> "Double"
    [] t = "TEXT"   -> "String"
    [] t = "LONG"   -> "Integer"
    [] OTHER        -> t


\* area in hectares (1 ha = 10000 m2) as a field of scale s stores it:
\* the number of 10^-s units, rounded half up
Pow10(s) == IF s = 0 THEN 1 ELSE IF s = 1 THEN 10 ELSE IF s = 2 THEN 100 ELSE 1000
AreaHa(area, s) == <<"ha", (area * Pow10(s) + 5000) \div 10000, s>>

\* management.CreateFeatureclass(folder, name, "POLYGON"): an empty shapefile
\* with the fields every new shapefile gets
CreateFeatureclass ==
  [exists |-> TRUE, fields |-> <<FieldFID, FieldShape, FieldId>>, rows |-> <<>>]

\* management.AddField: appends the field; a name that already exists
\* only draws a warning and leaves the table as it is
AddField(c, n, t, p, s, m) ==
  IF FindField(c, n) # 0 THEN c
  ELSE [c EXCEPT
         !.fields = Append(@, Field(n, FieldTypeOf(t), p, s, m)),
         !.rows = [k \in DOMAIN @ |->
                     [@[k] EXCEPT !.vals =
                        [x \in DOMAIN @ \cup {n} |-> IF x = n THEN Null ELSE @[x]]]]]

\* management.DeleteField: drops the field and its values; no such field, no change
DeleteField(c, n) ==
  LET j == FindField(c, n)
  IN  IF j = 0 THEN c
      ELSE LET gone == c.fields[j].name
           IN  [c EXCEPT
                 !.fields = Filter(@, DOMAIN @ \ {j}),
                 !.rows = [k \in DOMAIN @ |->
                             [@[k] EXCEPT !.vals = [x \in DOMAIN @ \ {gone} |-> @[x]]]]]

\* management.CalculateGeometryAttributes(c, [[n, 'AREA']], area_unit="HECTARES"):
\* writes every feature's area into field n.  A field n that does not exist
\* is first added by the tool itself as a double field; the tool is given no
\* precision or scale, so the new field has the engine's own (dp, ds).
CalculateGeometryAttributes(c, n, dp, ds) ==
  LET c1 == IF FindField(c, n) = 0 THEN AddField(c, n, "DOUBLE", dp, ds, "default") ELSE c
      f  == c1.fields[FindField(c1, n)]
  IN  [c1 EXCEPT !.rows = [k \in DOMAIN @ |->
                             [@[k] EXCEPT !.vals[f.name] = AreaHa(c1.rows[k].geom, f.scale)]]]

\* da.SearchCursor(c, ['SHAPE@'] + names): the k-th row as a tuple
SearchRow(c, names, k) ==
  <<c.rows[k].geom>> \o [j \in 1..Len(names) |-> c.rows[k].vals[names[j]]]

\* da.InsertCursor(c, ['SHAPE@'] + names).insertRow(row): a new last feature
\* with the tuple's geometry and values; the fields not listed stay unset
insertRow(c, names, row) ==
  LET val(x) == IF \E j \in 1..Len(names) : names[j] = x
                THEN row[1 + (CHOOSE j \in 1..Len(names) : names[j] = x)]
                ELSE Null
  IN  [c EXCEPT !.rows = Append(@, [geom |-> row[1],
                                    vals |-> [x \in UserNames(c) |-> val(x)]])]

\* management.CopyFeatures(src, out): out gets the schema and rows of src
CopyFeatures(src) == [exists |-> TRUE, fields |-> src.fields, rows |-> src.rows]

\* ------------------------------------------------------------------ state
VARIABLES
  shapefile,               \* the feature class at shapefile_path
  scratchFolder,           \* the temporary shapefiles, one unique name per call
  precision, escala,       \* the parameters of the calls
  pc,                      \* the statement st_trans_sup_ha is at
  calls,                   \* calls started so far
  original_fields, field_obj, temp_fields, original_fields_to_copy,
  i,                       \* next field of the loop of line 76
  k,                       \* next row of the loop of line 98
  exc,                     \* the exception in flight
  result,                  \* what the call gave its caller
  log,                     \* the engine calls of the current call, in order
  pre,                     \* shapefile and scratchFolder when the call started
  history                  \* per finished call: result, log, state before and after

vars == <<shapefile, scratchFolder, precision, escala, pc, calls, original_fields,
          field_obj, temp_fields, original_fields_to_copy, i, k, exc, result, log,
          pre, history>>

locals == <<original_fields, field_obj, temp_fields, original_fields_to_copy, i, k>>
params == <<precision, escala>>

\* ----------------------------------------------------- the input feature classes
FieldA == Field("A", "String", 0, 0, "a")
FieldB == Field("B", "Double", 10, 3, "b")
\* the area field as the input may have it: either spelling, each of the
\* (precision, scale) pairs as a double, and as a text field
TargetFields ==
  {Field(n, d[1], d[2], d[3], "t") :
     n \in {"Sup_ha", "SUP_HA"},
     d \in {<<"Double", 8, 2>>, <<"Double", 10, 3>>, <<"Double", 8, 3>>,
            <<"String", 8, 2>>}}
InputFields == {FieldA, FieldB, FieldId} \cup TargetFields

\* attribute schemas: at most MaxFields fields, names unique without regard to case
Schemas ==
  {s \in UNION {[1..n -> InputFields] : n \in 0..MaxFields} :
     \A a, b \in DOMAIN s : a # b => Lower(s[a].name) # Lower(s[b].name)}

\* a feature class of the given schema with n features; the value of a field
\* in a row is a token of its own, so that a copy can be told from any other value
InputCollection(s, n) ==
  [exists |-> TRUE,
   fields |-> <<FieldFID, FieldShape>> \o s,
   rows   |-> [r \in 1..n |->
                 [geom |-> AreaOf(r),
                  vals |-> [x \in {s[j].name : j \in DOMAIN s} |-> <<"v", x, r>>]]]]

Inputs == {InputCollection(s, n) : s \in Schemas, n \in 0..MaxRows}

NoExc == "none"

Init ==
  /\ shapefile \in Inputs \cup {NoCollection}
  /\ scratchFolder = [c \in {1, 2} |-> NoCollection]
  /\ \E pr \in Params : precision = pr[1] /\ escala = pr[2]
  /\ pc = "idle"
  /\ calls = 0
  /\ original_fields = <<>>
  /\ field_obj = <<>>
  /\ temp_fields = <<>>
  /\ original_fields_to_copy = <<>>
  /\ i = 1
  /\ k = 1
  /\ exc = NoExc
  /\ result = "none"
  /\ log = <<>>
  /\ pre = [shapefile |-> shapefile, scratchFolder |-> scratchFolder]
  /\ history = <<>>

\* ------------------------------------------------------------ st_trans_sup_ha
\* temp_shapefile: CreateUniqueName gives every call a name of its own
temp_shapefile == calls
Temp == scratchFolder[temp_shapefile]

\* (precision, scale) the engine may give a field it adds by itself
EngineDefaults == {<<0, 0>>, <<10, 3>>}

Matches(f) == Lower(f.name) = Lower(campo_superficie)

\* a lookup that compares the names as they are spelled
FirstMatchCaseSensitive(fs) ==
  LET hits == {j \in DOMAIN fs : fs[j].name = campo_superficie}
  IN  IF hits = {} THEN <<>>
      ELSE <<fs[CHOOSE j \in hits : \A h \in hits : j <= h]>>

\* line 38: next((f for f in original_fields if f.name.lower() == ...), None),
\* as a sequence: <<>> is None
FirstMatch(fs) ==
  LET hits == {j \in DOMAIN fs : Matches(fs[j])}
  IN  IF hits = {} THEN <<>>
      ELSE <<fs[CHOOSE j \in hits : \A h \in hits : j <= h]>>

\* lines 44-46
WellFormed(f) ==
  f.type = "Double" /\ f.precision = precision /\ f.scale = escala

Done(call) == log' = Append(log, call)

\* the caller: st_trans_sup_ha(shapefile_path, "Sup_ha", precision, escala),
\* once and then once more
Call ==
  /\ pc = "idle"
  /\ calls < 2
  /\ calls' = calls + 1
  /\ pc' = "L21"
  /\ original_fields' = <<>>
  /\ field_obj' = <<>>
  /\ temp_fields' = <<>>
  /\ original_fields_to_copy' = <<>>
  /\ i' = 1
  /\ k' = 1
  /\ exc' = NoExc
  /\ result' = "none"
  /\ log' = <<>>
  /\ pre' = [shapefile |-> shapefile, scratchFolder |-> scratchFolder]
  /\ UNCHANGED <<shapefile, scratchFolder, params, history>>

\* a call that goes on without the check of line 21
ExistsUnchecked ==
  /\ pc = "L21"
  /\ Done("Exists")
  /\ pc' = "L33"
  /\ UNCHANGED <<shapefile, scratchFolder, params, calls, locals, exc, result, pre, history>>

\* lines 21-23
Exists ==
  /\ pc = "L21"
  /\ Done("Exists")
  /\ IF ~shapefile.exists
     THEN result' = "False" /\ pc' = "return"
     ELSE result' = result /\ pc' = "L33"
  /\ UNCHANGED <<shapefile, scratchFolder, params, calls, locals, exc, pre, history>>

\* lines 33-34
Describe ==
  /\ pc = "L33"
  /\ Done("Describe")
  /\ pc' = "L37"
  /\ UNCHANGED <<shapefile, scratchFolder, params, calls, locals, exc, result, pre, history>>

\* lines 37-60: read the schema, look the field up, choose the path
ListFields ==
  /\ pc = "L37"
  /\ Done("ListFields")
  /\ original_fields' = shapefile.fields
  /\ field_obj' = FirstMatch(shapefile.fields)
  /\ pc' = IF field_obj' # <<>> /\ WellFormed(field_obj'[1]) THEN "L50" ELSE "L64"
  /\ UNCHANGED <<shapefile, scratchFolder, params, calls, temp_fields,
                 original_fields_to_copy, i, k, exc, result, pre, history>>

\* lines 50-57: the field is well formed, recompute it in place
CalculateInPlace ==
  /\ pc = "L50"
  /\ Done("CalculateGeometryAttributes:shapefile_path")
  /\ \E d \in EngineDefaults :
       shapefile' = CalculateGeometryAttributes(shapefile, campo_superficie, d[1], d[2])
  /\ result' = "True"
  /\ pc' = "return"
  /\ UNCHANGED <<scratchFolder, params, calls, locals, exc, pre, history>>

\* line 64
CreateUniqueName ==
  /\ pc = "L64"
  /\ ~Temp.exists
  /\ Done("CreateUniqueName")
  /\ pc' = "L68"
  /\ UNCHANGED <<shapefile, scratchFolder, params, calls, locals, exc, result, pre, history>>

\* the original deleted as soon as the temporary shapefile is there
CreateTempAfterDelete ==
  /\ pc = "L68"
  /\ Done("CreateFeatureclass")
  /\ scratchFolder' = [scratchFolder EXCEPT ![temp_shapefile] = CreateFeatureclass]
  /\ shapefile' = NoCollection
  /\ i' = 1
  /\ pc' = "L76"
  /\ UNCHANGED <<params, calls, original_fields, field_obj, temp_fields,
                 original_fields_to_copy, k, exc, result, pre, history>>

\* lines 68-73
CreateTemp ==
  /\ pc = "L68"
  /\ Done("CreateFeatureclass")
  /\ scratchFolder' = [scratchFolder EXCEPT ![temp_shapefile] = CreateFeatureclass]
  /\ i' = 1
  /\ pc' = "L76"
  /\ UNCHANGED <<shapefile, params, calls, original_fields, field_obj, temp_fields,
                 original_fields_to_copy, k, exc, result, pre, history>>

\* lines 76-82: one pass of the loop over original_fields
AddFields ==
  /\ pc = "L76"
  /\ i <= Len(original_fields)
  /\ LET field == original_fields[i] IN
       IF ~IsManaged(field) /\ ~Matches(field)
       THEN /\ scratchFolder' = [scratchFolder EXCEPT ![temp_shapefile] =
                 AddField(@, field.name, field.type, field.precision, field.scale,
                          field.meta)]
            /\ Done("AddField")
       ELSE IF Matches(field)
       THEN /\ scratchFolder' = [scratchFolder EXCEPT ![temp_shapefile] =
                 AddField(@, campo_superficie, "DOUBLE", precision, escala, "default")]
            /\ Done("AddField")
       ELSE UNCHANGED <<scratchFolder, log>>
  /\ i' = i + 1
  /\ UNCHANGED <<shapefile, params, pc, calls, original_fields, field_obj, temp_fields,
                 original_fields_to_copy, k, exc, result, pre, history>>

\* line 91
TempFieldNames(c) == [j \in DOMAIN UserFields(c) |-> UserFields(c)[j].name]

\* line 93
FieldsToCopy(fs, tf) ==
  LET keep == {j \in DOMAIN fs : fs[j].name \in Range(tf) /\ ~Matches(fs[j])}
      kept == Filter(fs, keep)
  IN  [j \in DOMAIN kept |-> kept[j].name]

\* lines 91-93, after the loop
ListTempFields ==
  /\ pc = "L76"
  /\ i > Len(original_fields)
  /\ Done("ListFields")
  /\ temp_fields' = TempFieldNames(Temp)
  /\ original_fields_to_copy' = FieldsToCopy(original_fields, temp_fields')
  /\ pc' = "L96"
  /\ UNCHANGED <<shapefile, scratchFolder, params, calls, original_fields, field_obj,
                 i, k, exc, result, pre, history>>

\* lines 96-97
OpenCursors ==
  /\ pc = "L96"
  /\ Done("Cursors")
  /\ k' = 1
  /\ pc' = "L98"
  /\ UNCHANGED <<shapefile, scratchFolder, params, calls, original_fields, field_obj,
                 temp_fields, original_fields_to_copy, i, exc, result, pre, history>>

\* lines 98-99: one row from the search cursor into the insert cursor
CopyRow ==
  /\ pc = "L98"
  /\ k <= Len(shapefile.rows)
  /\ Done("insertRow")
  /\ scratchFolder' = [scratchFolder EXCEPT ![temp_shapefile] =
        insertRow(@, original_fields_to_copy,
                  SearchRow(shapefile, original_fields_to_copy, k))]
  /\ k' = k + 1
  /\ UNCHANGED <<shapefile, params, pc, calls, original_fields, field_obj, temp_fields,
                 original_fields_to_copy, i, exc, result, pre, history>>

\* the search cursor is exhausted: both with blocks end
CloseCursors ==
  /\ pc = "L98"
  /\ k > Len(shapefile.rows)
  /\ pc' = "L103"
  /\ UNCHANGED <<shapefile, scratchFolder, params, calls, locals, exc, result, log,
                 pre, history>>

\* lines 103-108
CalculateTemp ==
  /\ pc = "L103"
  /\ Done("CalculateGeometryAttributes:temp_shapefile")
  /\ \E d \in EngineDefaults :
       scratchFolder' = [scratchFolder EXCEPT ![temp_shapefile] =
         CalculateGeometryAttributes(@, campo_superficie, d[1], d[2])]
  /\ pc' = "L113"
  /\ UNCHANGED <<shapefile, params, calls, locals, exc, result, pre, history>>

\* line 113
DeleteId ==
  /\ pc = "L113"
  /\ Done("DeleteField")
  /\ scratchFolder' = [scratchFolder EXCEPT ![temp_shapefile] = DeleteField(@, "Id")]
  /\ pc' = "L114"
  /\ UNCHANGED <<shapefile, params, calls, locals, exc, result, pre, history>>

\* line 114
DeleteOriginal ==
  /\ pc = "L114"
  /\ Done("Delete:shapefile_path")
  /\ shapefile' = NoCollection
  /\ pc' = "L115"
  /\ UNCHANGED <<scratchFolder, params, calls, locals, exc, result, pre, history>>

\* line 115
CopyBack ==
  /\ pc = "L115"
  /\ Done("CopyFeatures")
  /\ shapefile' = CopyFeatures(Temp)
  /\ pc' = "L116"
  /\ UNCHANGED <<scratchFolder, params, calls, locals, exc, result, pre, history>>

\* a return that leaves the temporary shapefile where it is
DeleteTempSkipped ==
  /\ pc = "L116"
  /\ Done("Delete:temp_shapefile")
  /\ result' = "True"
  /\ pc' = "return"
  /\ UNCHANGED <<shapefile, scratchFolder, params, calls, locals, exc, pre, history>>

\* lines 116-119
DeleteTemp ==
  /\ pc = "L116"
  /\ Done("Delete:temp_shapefile")
  /\ scratchFolder' = [scratchFolder EXCEPT ![temp_shapefile] = NoCollection]
  /\ result' = "True"
  /\ pc' = "return"
  /\ UNCHANGED <<shapefile, params, calls, locals, exc, pre, history>>

\* the statements of the try block (lines 27-119) that call the engine
CallsEngine ==
  \/ pc \in {"L33", "L37", "L50", "L64", "L68", "L96", "L98", "L103", "L113",
              "L114", "L115", "L116"}
  \/ /\ pc = "L76"
     /\ i <= Len(original_fields) =>
          ~IsManaged(original_fields[i]) \/ Matches(original_fields[i])

ExcKinds == {"ExecuteError", "Exception"}

\* an engine call of the try block raises instead of acting
Raise ==
  /\ CallsEngine
  /\ exc' \in ExcKinds
  /\ Done("raise")
  /\ pc' = "except"
  /\ UNCHANGED <<shapefile, scratchFolder, params, calls, locals, result, pre, history>>

\* a handler with the clause of line 121 alone
HandlerExecuteErrorOnly(kind) ==
  IF kind = "ExecuteError" THEN "False" ELSE "raised"

\* lines 121-127: what the except clauses turn an exception into
Handler(kind) ==
  IF kind = "ExecuteError" THEN "False"
  ELSE IF kind = "Exception" THEN "False"
  ELSE "raised"

Except ==
  /\ pc = "except"
  /\ result' = Handler(exc)
  /\ exc' = NoExc
  /\ pc' = "return"
  /\ UNCHANGED <<shapefile, scratchFolder, params, calls, locals, log, pre, history>>

\* the call is over: the caller has the result
Return ==
  /\ pc = "return"
  /\ history' = Append(history,
        [result |-> result, log |-> log, before |-> pre.shapefile,
         after |-> shapefile])
  /\ pc' = "idle"
  /\ UNCHANGED <<shapefile, scratchFolder, params, calls, locals, exc, result, log, pre>>

Next ==
  \/ Call \/ Exists \/ Describe \/ ListFields \/ CalculateInPlace
  \/ CreateUniqueName \/ CreateTemp \/ AddFields \/ ListTempFields
  \/ OpenCursors \/ CopyRow \/ CloseCursors \/ CalculateTemp
  \/ DeleteId \/ DeleteOriginal \/ CopyBack \/ DeleteTemp
  \/ Raise \/ Except \/ Return

Spec == Init /\ [][Next]_vars

\* ================================================================ properties
\* The state the current call started from is pre; log holds the engine calls
\* it has completed, and "raise" for the one that failed.
Source     == pre.shapefile
Called(op) == op \in Range(log)
Returning  == pc = "return"
NoFailure  == ~Called("raise")
SlowPath   == Called("CreateFeatureclass")

IsTarget(f)    == Lower(f.name) = Lower(campo_superficie)
HasTarget(c)   == \E j \in DOMAIN c.fields : IsTarget(c.fields[j])
TargetIndex(c) == CHOOSE j \in DOMAIN c.fields : IsTarget(c.fields[j])
TargetField(c) == c.fields[TargetIndex(c)]
IsRequested(f) == f.type = "Double" /\ f.precision = precision /\ f.scale = escala

\* position of the target field among the attribute fields
TargetPosition(c) ==
  Cardinality({j \in 1..TargetIndex(c) : ~IsManaged(c.fields[j])})

\* the attribute fields other than the target field, in schema order
OtherFields(c) ==
  Filter(c.fields, {j \in DOMAIN c.fields :
                      ~IsManaged(c.fields[j]) /\ ~IsTarget(c.fields[j])})
OtherNames(c) == {OtherFields(c)[j].name : j \in DOMAIN OtherFields(c)}

Malformed(c)     == c.exists /\ HasTarget(c) /\ ~IsRequested(TargetField(c))
Absent(c)        == c.exists /\ ~HasTarget(c)
WellFormedIn(c)  == c.exists /\ HasTarget(c) /\ IsRequested(TargetField(c))

\* row r of c has the geometry and the other fields' values of row r of src
SameRow(c, src, r) ==
  /\ c.rows[r].geom = src.rows[r].geom
  /\ \A x \in OtherNames(src) :
       x \in DOMAIN c.rows[r].vals /\ c.rows[r].vals[x] = src.rows[r].vals[x]

SameRows(c, src) ==
  /\ Len(c.rows) = Len(src.rows)
  /\ \A r \in DOMAIN src.rows : SameRow(c, src, r)

\* every row's target value is the row's area in hectares at the field's scale
AreasComputed(c) ==
  \A r \in DOMAIN c.rows :
    c.rows[r].vals[TargetField(c).name] = AreaHa(c.rows[r].geom, TargetField(c).scale)

\* C1: a call on a collection whose target field is present but malformed, with
\* every engine call succeeding, returns success and leaves the target field
\* numeric with the requested precision and scale at the position among the
\* attribute fields that the old target field had.
C1_MalformedRebuiltInPlace ==
  (Returning /\ Malformed(Source) /\ NoFailure) =>
    /\ result = "True"
    /\ shapefile.exists /\ HasTarget(shapefile)
    /\ IsRequested(TargetField(shapefile))
    /\ TargetPosition(shapefile) = TargetPosition(Source)

\* C2: a call on a collection without the target field returns success and
\* leaves the target field with the requested precision and scale, after all
\* the other fields, with the row count unchanged.
C2_AbsentAppended ==
  (Returning /\ Absent(Source) /\ NoFailure) =>
    /\ result = "True"
    /\ shapefile.exists /\ HasTarget(shapefile)
    /\ IsRequested(TargetField(shapefile))
    /\ TargetIndex(shapefile) = Len(shapefile.fields)
    /\ Len(shapefile.rows) = Len(Source.rows)

C4_OtherFieldsKept ==
  (Returning /\ SlowPath /\ result = "True") =>
    /\ shapefile.exists
    /\ OtherFields(shapefile) = OtherFields(Source)

\* C5: when the input location does not exist the call returns failure at once:
\* its only engine call is the existence check and no collection changes.
C5_NotFoundNoMutation ==
  (calls >= 1 /\ ~Source.exists) =>
    /\ pc \in {"L21", "return", "idle"}
    /\ log \in {<<>>, <<"Exists">>}
    /\ shapefile = Source
    /\ scratchFolder = pre.scratchFolder
    /\ pc \in {"return", "idle"} => result = "False"

C5_Witness ==
  /\ Returning /\ ~Source.exists /\ result = "False" /\ log = <<"Exists">>

\* C6: a call in which an engine call of the try block failed ends with the
\* result False; a call never ends with a fault handed to the caller, and it
\* never ends with True after a failed step.
C6_FailuresBecomeFalse ==
  Returning =>
    /\ result \in {"True", "False"}
    /\ Called("raise") => result = "False"

C6_Witness ==
  /\ Returning /\ Called("raise") /\ Called("Delete:shapefile_path")
  /\ result = "False"

\* C7 as claimed: a temporary collection the call created no longer exists
\* when the call returns, be the result success or failure.
C7_TempGoneOnReturn ==
  (Returning /\ SlowPath) => ~Temp.exists

\* C7 as amended: a temporary collection the call created no longer exists
\* when the call returns success.
C7_TempGoneOnSuccess ==
  (Returning /\ SlowPath /\ result = "True") => ~Temp.exists

C7_Witness ==
  /\ Returning /\ SlowPath /\ result = "True" /\ ~Temp.exists
  /\ Called("Delete:temp_shapefile")

\* C8: two successive calls that both succeed leave the collection as the
\* first one left it, and the second one takes the fast path.
C8_Idempotent ==
  (Len(history) = 2 /\ history[1].result = "True" /\ history[2].result = "True") =>
    /\ history[2].after = history[1].after
    /\ "CreateFeatureclass" \notin Range(history[2].log)

\* C9: on the slow path the original is deleted only once the replacement is
\* complete in the temporary collection, and a call that fails at a step
\* before the delete returns failure with the original as it was.
C9_DeleteAfterBuild ==
  /\ (pc = "L115" /\ SlowPath) =>
        /\ Called("Delete:shapefile_path")
        /\ Called("CalculateGeometryAttributes:temp_shapefile")
        /\ Called("DeleteField")
        /\ i > Len(original_fields)
        /\ Temp.exists
        /\ Len(Temp.rows) = Len(Source.rows)
        /\ FindField(Temp, "Id") = 0
  /\ (SlowPath /\ ~Called("Delete:shapefile_path")) => shapefile = Source
  /\ (Returning /\ SlowPath /\ Called("raise") /\ ~Called("DeleteField")) =>
        (result = "False" /\ shapefile = Source)

C9_Witness ==
  /\ Returning /\ SlowPath /\ Called("raise") /\ ~Called("DeleteField")
  /\ Called("CalculateGeometryAttributes:temp_shapefile")
  /\ Len(Source.rows) = MaxRows
  /\ result = "False" /\ shapefile = Source

\* C10: after a successful slow-path call the collection has the rows of the
\* source, in order, each with the source row's geometry and the source row's
\* value for every field of the source other than the target field.
C10_RowsCopied ==
  (Returning /\ SlowPath /\ result = "True") =>
    /\ shapefile.exists
    /\ SameRows(shapefile, Source)

====
